---------------------------- MODULE Spec2Model ----------------------------
(***************************************************************************)
(* Model of the load balancing client of cloudflare-go                     *)
(* (src/load_balancing.go).                                                *)
(*                                                                         *)
(* The file holds the configuration types of pools, origins, monitors,    *)
(* load balancers and rules (lines 12-290: declarations only, no method   *)
(* and no function reads them) and sixteen client operations (lines       *)
(* 298-718).  Each operation checks the level of its resource container,  *)
(* checks a required ID, builds a URI, issues one HTTP request through    *)
(* api.makeRequestContext and decodes the JSON answer.                    *)
(*                                                                         *)
(* The client keeps no state of its own between calls.  The state of the  *)
(* model is what a call leaves behind: the arguments of the last call,    *)
(* what it returned, the requests it sent, and the number of requests     *)
(* sent so far.  The answer of the service (makeRequestContext and        *)
(* json.Unmarshal live outside this file) is an input of every call.      *)
(***************************************************************************)
EXTENDS Naturals, Sequences, FiniteSets

VARIABLES
    call,       \* the last call: operation, resource container, ID, paging
    ret,        \* what the last call returned: result and error
    sent,       \* the HTTP requests the last call issued, in order
    nRequests   \* the number of HTTP requests issued so far

vars == <<call, ret, sent, nRequests>>

--------------------------------------------------------------------------
(* Bounds *)

\* Calls are explored until this many HTTP requests have been issued.
MaxRequests == 2

--------------------------------------------------------------------------
(* Route levels and inputs *)

AccountRouteLevel == "accounts"
ZoneRouteLevel == "zones"
UserRouteLevel == "user"

\* rc.Level is a string type: a caller may also pass a level that is none of
\* the three named ones (here the empty string).
Levels == {AccountRouteLevel, ZoneRouteLevel, UserRouteLevel, ""}

Identifiers == {"01a7", "f2c3"}

\* *ResourceContainer: a pointer, so nil is a possible argument.
NilRC == [isNil |-> TRUE, Level |-> "", Identifier |-> ""]

ResourceContainers ==
    {[isNil |-> FALSE, Level |-> l, Identifier |-> i] :
        l \in Levels, i \in Identifiers}
    \cup {NilRC}

\* Resource IDs (poolID, monitorID, loadbalancerID, params.X.ID); "" is the
\* missing ID.
IDs == {"", "17b5", "9a7d"}

\* PaginationOptions of the List operations, passed on to buildURI.
PaginationOptions == {"unset", "page=2"}

\* What api.makeRequestContext and json.Unmarshal can make of a request:
\* the request fails, the answer does not decode, or it decodes.
Responses == {"requestError", "malformed", "ok"}

--------------------------------------------------------------------------
(* Values *)

NilError == [kind |-> "nil", arg |-> ""]
ErrMissingPoolID == [kind |-> "ErrMissingPoolID", arg |-> ""]
ErrMissingMonitorID == [kind |-> "ErrMissingMonitorID", arg |-> ""]
ErrMissingLoadBalancerID == [kind |-> "ErrMissingLoadBalancerID", arg |-> ""]

\* fmt.Errorf(errInvalidResourceContainerAccess, level)
InvalidResourceContainerAccess(level) ==
    [kind |-> "errInvalidResourceContainerAccess", arg |-> level]

\* The error api.makeRequestContext returned, passed on as it is.
RequestError == [kind |-> "requestError", arg |-> ""]

\* fmt.Errorf("%s: %w", errUnmarshalError, err)
UnmarshalError == [kind |-> "errUnmarshalError", arg |-> ""]

\* A runtime panic: rc.Level read through a nil pointer.
NilDereference == [kind |-> "panic", arg |-> "nil pointer dereference"]

\* Results.  T{} is the zero value of T, []T{} an empty non-nil slice, nil
\* a nil slice, "decoded" the r.Result decoded from the answer; "none" is
\* the result of an operation that returns an error only.
Zero(type) == [type |-> type, val |-> "zero"]
EmptySlice(type) == [type |-> type, val |-> "empty"]
NilSlice(type) == [type |-> type, val |-> "nil"]
Decoded(type) == [type |-> type, val |-> "decoded"]
NoResult == [type |-> "", val |-> "none"]

NoBody == [present |-> FALSE, ID |-> ""]
Body(id) == [present |-> TRUE, ID |-> id]

\* buildURI(path, opts): the path with the paging options as its query.
buildURI(path, opts) == [path |-> path, query |-> opts]
\* A URI built by fmt.Sprintf alone has no query.
PlainURI(path) == [path |-> path, query |-> ""]

Request(method, uri, body) ==
    [method |-> method, path |-> uri.path, query |-> uri.query, body |-> body]

Outcome(requests, result, err) ==
    [sent |-> requests, result |-> result, err |-> err]

\* The tail of every operation that returns a single decoded object:
\* makeRequestContext, then json.Unmarshal, then r.Result.
DecodeOne(req, type, resp) ==
    IF resp = "requestError" THEN Outcome(<<req>>, Zero(type), RequestError)
    ELSE IF resp = "malformed" THEN Outcome(<<req>>, Zero(type), UnmarshalError)
    ELSE Outcome(<<req>>, Decoded(type), NilError)

\* The tail of every List operation: both error returns are nil slices.
DecodeList(req, type, resp) ==
    IF resp = "requestError" THEN Outcome(<<req>>, NilSlice(type), RequestError)
    ELSE IF resp = "malformed" THEN Outcome(<<req>>, NilSlice(type), UnmarshalError)
    ELSE Outcome(<<req>>, Decoded(type), NilError)

\* The tail of every Delete operation: the answer's body is never decoded.
DecodeNone(req, resp) ==
    IF resp = "requestError" THEN Outcome(<<req>>, NoResult, RequestError)
    ELSE Outcome(<<req>>, NoResult, NilError)


--------------------------------------------------------------------------
(* Pool operations *)

\* CreateLoadBalancerPool without the user-level branch: every accepted level
\* is sent to the account path.
CreateLoadBalancerPool_AccountPathOnly(rc, params, resp) ==
    IF rc.Level = ZoneRouteLevel
    THEN Outcome(<<>>, Zero("LoadBalancerPool"),
                 InvalidResourceContainerAccess(ZoneRouteLevel))
    ELSE LET uri == PlainURI(<<"accounts", rc.Identifier,
                               "load_balancers", "pools">>)
         IN  DecodeOne(Request("POST", uri, Body(params.ID)),
                       "LoadBalancerPool", resp)

CreateLoadBalancerPool(rc, params, resp) ==
    IF rc.Level = ZoneRouteLevel
    THEN Outcome(<<>>, Zero("LoadBalancerPool"),
                 InvalidResourceContainerAccess(ZoneRouteLevel))
    ELSE LET uri == IF rc.Level = UserRouteLevel
                    THEN PlainURI(<<"user", "load_balancers", "pools">>)
                    ELSE PlainURI(<<"accounts", rc.Identifier,
                                    "load_balancers", "pools">>)
         IN  DecodeOne(Request("POST", uri, Body(params.ID)),
                       "LoadBalancerPool", resp)

ListLoadBalancerPools(rc, params, resp) ==
    IF rc.Level = ZoneRouteLevel
    THEN Outcome(<<>>, EmptySlice("LoadBalancerPool"),
                 InvalidResourceContainerAccess(ZoneRouteLevel))
    ELSE LET path == IF rc.Level = UserRouteLevel
                     THEN <<"user", "load_balancers", "pools">>
                     ELSE <<"accounts", rc.Identifier,
                            "load_balancers", "pools">>
             uri == buildURI(path, params)
         IN  DecodeList(Request("GET", uri, NoBody), "LoadBalancerPool", resp)

GetLoadBalancerPool(rc, poolID, resp) ==
    IF rc.Level = ZoneRouteLevel
    THEN Outcome(<<>>, Zero("LoadBalancerPool"),
                 InvalidResourceContainerAccess(ZoneRouteLevel))
    ELSE IF poolID = ""
    THEN Outcome(<<>>, Zero("LoadBalancerPool"), ErrMissingPoolID)
    ELSE LET uri == IF rc.Level = UserRouteLevel
                    THEN PlainURI(<<"user", "load_balancers", "pools", poolID>>)
                    ELSE PlainURI(<<"accounts", rc.Identifier,
                                    "load_balancers", "pools", poolID>>)
         IN  DecodeOne(Request("GET", uri, NoBody), "LoadBalancerPool", resp)

DeleteLoadBalancerPool(rc, poolID, resp) ==
    IF rc.Level = ZoneRouteLevel
    THEN Outcome(<<>>, NoResult, InvalidResourceContainerAccess(ZoneRouteLevel))
    ELSE IF poolID = ""
    THEN Outcome(<<>>, NoResult, ErrMissingPoolID)
    ELSE LET uri == IF rc.Level = UserRouteLevel
                    THEN PlainURI(<<"user", "load_balancers", "pools", poolID>>)
                    ELSE PlainURI(<<"accounts", rc.Identifier,
                                    "load_balancers", "pools", poolID>>)
         IN  DecodeNone(Request("DELETE", uri, NoBody), resp)

UpdateLoadBalancerPool(rc, params, resp) ==
    IF rc.Level = ZoneRouteLevel
    THEN Outcome(<<>>, Zero("LoadBalancerPool"),
                 InvalidResourceContainerAccess(ZoneRouteLevel))
    ELSE IF params.ID = ""
    THEN Outcome(<<>>, Zero("LoadBalancerPool"), ErrMissingPoolID)
    ELSE LET uri == IF rc.Level = UserRouteLevel
                    THEN PlainURI(<<"user", "load_balancers", "pools",
                                    params.ID>>)
                    ELSE PlainURI(<<"accounts", rc.Identifier,
                                    "load_balancers", "pools", params.ID>>)
         IN  DecodeOne(Request("PUT", uri, Body(params.ID)),
                       "LoadBalancerPool", resp)

GetLoadBalancerPoolHealth(rc, poolID, resp) ==
    IF rc.Level = ZoneRouteLevel
    THEN Outcome(<<>>, Zero("LoadBalancerPoolHealth"),
                 InvalidResourceContainerAccess(ZoneRouteLevel))
    ELSE IF poolID = ""
    THEN Outcome(<<>>, Zero("LoadBalancerPoolHealth"), ErrMissingPoolID)
    ELSE LET uri == IF rc.Level = UserRouteLevel
                    THEN PlainURI(<<"user", "load_balancers", "pools",
                                    poolID, "health">>)
                    ELSE PlainURI(<<"accounts", rc.Identifier,
                                    "load_balancers", "pools", poolID,
                                    "health">>)
         IN  DecodeOne(Request("GET", uri, NoBody),
                       "LoadBalancerPoolHealth", resp)

--------------------------------------------------------------------------
(* Monitor operations *)

CreateLoadBalancerMonitor(rc, params, resp) ==
    IF rc.Level = ZoneRouteLevel
    THEN Outcome(<<>>, Zero("LoadBalancerMonitor"),
                 InvalidResourceContainerAccess(ZoneRouteLevel))
    ELSE LET uri == IF rc.Level = UserRouteLevel
                    THEN PlainURI(<<"user", "load_balancers", "monitors">>)
                    ELSE PlainURI(<<"accounts", rc.Identifier,
                                    "load_balancers", "monitors">>)
         IN  DecodeOne(Request("POST", uri, Body(params.ID)),
                       "LoadBalancerMonitor", resp)

ListLoadBalancerMonitors(rc, params, resp) ==
    IF rc.Level = ZoneRouteLevel
    THEN Outcome(<<>>, EmptySlice("LoadBalancerMonitor"),
                 InvalidResourceContainerAccess(ZoneRouteLevel))
    ELSE LET path == IF rc.Level = UserRouteLevel
                     THEN <<"user", "load_balancers", "monitors">>
                     ELSE <<"accounts", rc.Identifier,
                            "load_balancers", "monitors">>
             uri == buildURI(path, params)
         IN  DecodeList(Request("GET", uri, NoBody),
                        "LoadBalancerMonitor", resp)

GetLoadBalancerMonitor(rc, monitorID, resp) ==
    IF rc.Level = ZoneRouteLevel
    THEN Outcome(<<>>, Zero("LoadBalancerMonitor"),
                 InvalidResourceContainerAccess(ZoneRouteLevel))
    ELSE IF monitorID = ""
    THEN Outcome(<<>>, Zero("LoadBalancerMonitor"), ErrMissingMonitorID)
    ELSE LET uri == IF rc.Level = UserRouteLevel
                    THEN PlainURI(<<"user", "load_balancers", "monitors",
                                    monitorID>>)
                    ELSE PlainURI(<<"accounts", rc.Identifier,
                                    "load_balancers", "monitors", monitorID>>)
         IN  DecodeOne(Request("GET", uri, NoBody),
                       "LoadBalancerMonitor", resp)

DeleteLoadBalancerMonitor(rc, monitorID, resp) ==
    IF rc.Level = ZoneRouteLevel
    THEN Outcome(<<>>, NoResult, InvalidResourceContainerAccess(ZoneRouteLevel))
    ELSE IF monitorID = ""
    THEN Outcome(<<>>, NoResult, ErrMissingMonitorID)
    ELSE LET uri == IF rc.Level = UserRouteLevel
                    THEN PlainURI(<<"user", "load_balancers", "monitors",
                                    monitorID>>)
                    ELSE PlainURI(<<"accounts", rc.Identifier,
                                    "load_balancers", "monitors", monitorID>>)
         IN  DecodeNone(Request("DELETE", uri, NoBody), resp)

UpdateLoadBalancerMonitor(rc, params, resp) ==
    IF rc.Level = ZoneRouteLevel
    THEN Outcome(<<>>, Zero("LoadBalancerMonitor"),
                 InvalidResourceContainerAccess(ZoneRouteLevel))
    ELSE IF params.ID = ""
    THEN Outcome(<<>>, Zero("LoadBalancerMonitor"), ErrMissingMonitorID)
    ELSE LET uri == IF rc.Level = UserRouteLevel
                    THEN PlainURI(<<"user", "load_balancers", "monitors",
                                    params.ID>>)
                    ELSE PlainURI(<<"accounts", rc.Identifier,
                                    "load_balancers", "monitors", params.ID>>)
         IN  DecodeOne(Request("PUT", uri, Body(params.ID)),
                       "LoadBalancerMonitor", resp)

--------------------------------------------------------------------------
(* Load balancer operations *)

CreateLoadBalancer(rc, params, resp) ==
    IF rc.Level # ZoneRouteLevel
    THEN Outcome(<<>>, Zero("LoadBalancer"),
                 InvalidResourceContainerAccess(rc.Level))
    ELSE LET uri == PlainURI(<<"zones", rc.Identifier, "load_balancers">>)
         IN  DecodeOne(Request("POST", uri, Body(params.ID)),
                       "LoadBalancer", resp)

ListLoadBalancers(rc, params, resp) ==
    IF rc.Level # ZoneRouteLevel
    THEN Outcome(<<>>, EmptySlice("LoadBalancer"),
                 InvalidResourceContainerAccess(rc.Level))
    ELSE LET uri == buildURI(<<"zones", rc.Identifier, "load_balancers">>,
                             params)
         IN  DecodeList(Request("GET", uri, NoBody), "LoadBalancer", resp)

GetLoadBalancer(rc, loadbalancerID, resp) ==
    IF rc.Level # ZoneRouteLevel
    THEN Outcome(<<>>, Zero("LoadBalancer"),
                 InvalidResourceContainerAccess(rc.Level))
    ELSE IF loadbalancerID = ""
    THEN Outcome(<<>>, Zero("LoadBalancer"), ErrMissingLoadBalancerID)
    ELSE LET uri == PlainURI(<<"zones", rc.Identifier, "load_balancers",
                               loadbalancerID>>)
         IN  DecodeOne(Request("GET", uri, NoBody), "LoadBalancer", resp)

\* DeleteLoadBalancer with its two checks in the other order: the ID first,
\* the level second.
DeleteLoadBalancer_IDFirst(rc, loadbalancerID, resp) ==
    IF loadbalancerID = ""
    THEN Outcome(<<>>, NoResult, ErrMissingLoadBalancerID)
    ELSE IF rc.Level # ZoneRouteLevel
    THEN Outcome(<<>>, NoResult, InvalidResourceContainerAccess(rc.Level))
    ELSE LET uri == PlainURI(<<"zones", rc.Identifier, "load_balancers",
                               loadbalancerID>>)
         IN  DecodeNone(Request("DELETE", uri, NoBody), resp)

DeleteLoadBalancer(rc, loadbalancerID, resp) ==
    IF rc.Level # ZoneRouteLevel
    THEN Outcome(<<>>, NoResult, InvalidResourceContainerAccess(rc.Level))
    ELSE IF loadbalancerID = ""
    THEN Outcome(<<>>, NoResult, ErrMissingLoadBalancerID)
    ELSE LET uri == PlainURI(<<"zones", rc.Identifier, "load_balancers",
                               loadbalancerID>>)
         IN  DecodeNone(Request("DELETE", uri, NoBody), resp)

UpdateLoadBalancer(rc, params, resp) ==
    IF rc.Level # ZoneRouteLevel
    THEN Outcome(<<>>, Zero("LoadBalancer"),
                 InvalidResourceContainerAccess(rc.Level))
    ELSE IF params.ID = ""
    THEN Outcome(<<>>, Zero("LoadBalancer"), ErrMissingLoadBalancerID)
    ELSE LET uri == PlainURI(<<"zones", rc.Identifier, "load_balancers",
                               params.ID>>)
         IN  DecodeOne(Request("PUT", uri, Body(params.ID)),
                       "LoadBalancer", resp)

--------------------------------------------------------------------------
(* Calls *)

\* The object a Create or Update operation is given (params.LoadBalancerPool,
\* params.LoadBalancerMonitor, params.LoadBalancer): only its ID is read.
Objects == {[ID |-> id] : id \in IDs}

Operations ==
    {"CreateLoadBalancerPool", "ListLoadBalancerPools",
     "GetLoadBalancerPool", "DeleteLoadBalancerPool",
     "UpdateLoadBalancerPool", "CreateLoadBalancerMonitor",
     "ListLoadBalancerMonitors", "GetLoadBalancerMonitor",
     "DeleteLoadBalancerMonitor", "UpdateLoadBalancerMonitor",
     "CreateLoadBalancer", "ListLoadBalancers",
     "GetLoadBalancer", "DeleteLoadBalancer",
     "UpdateLoadBalancer", "GetLoadBalancerPoolHealth"}

\* Every operation reads rc.Level first: through a nil rc that is a runtime
\* panic, and nothing is returned or sent.
Deref(rc, outcome) ==
    IF rc.isNil THEN Outcome(<<>>, NoResult, NilDereference) ELSE outcome

\* A call is explored while the requests it sends fit the bound.
WithinBound(out) == nRequests + Len(out.sent) <= MaxRequests

Called(op, rc, id, page) == [op |-> op, rc |-> rc, id |-> id, page |-> page]

Returned(out) == [result |-> out.result, err |-> out.err]

NoCall == [op |-> "", rc |-> NilRC, id |-> "", page |-> ""]

Init ==
    /\ call = NoCall
    /\ ret = [result |-> NoResult, err |-> NilError]
    /\ sent = <<>>
    /\ nRequests = 0

CallCreateLoadBalancerPool ==
    \E rc \in ResourceContainers, params \in Objects, resp \in Responses :
        LET out == Deref(rc, CreateLoadBalancerPool(rc, params, resp))
        IN  /\ WithinBound(out)
            /\ call' = Called("CreateLoadBalancerPool", rc, params.ID, "")
            /\ ret' = Returned(out)
            /\ sent' = out.sent
            /\ nRequests' = nRequests + Len(out.sent)

CallListLoadBalancerPools ==
    \E rc \in ResourceContainers, params \in PaginationOptions,
       resp \in Responses :
        LET out == Deref(rc, ListLoadBalancerPools(rc, params, resp))
        IN  /\ WithinBound(out)
            /\ call' = Called("ListLoadBalancerPools", rc, "", params)
            /\ ret' = Returned(out)
            /\ sent' = out.sent
            /\ nRequests' = nRequests + Len(out.sent)

CallGetLoadBalancerPool ==
    \E rc \in ResourceContainers, id \in IDs, resp \in Responses :
        LET out == Deref(rc, GetLoadBalancerPool(rc, id, resp))
        IN  /\ WithinBound(out)
            /\ call' = Called("GetLoadBalancerPool", rc, id, "")
            /\ ret' = Returned(out)
            /\ sent' = out.sent
            /\ nRequests' = nRequests + Len(out.sent)

CallDeleteLoadBalancerPool ==
    \E rc \in ResourceContainers, id \in IDs, resp \in Responses :
        LET out == Deref(rc, DeleteLoadBalancerPool(rc, id, resp))
        IN  /\ WithinBound(out)
            /\ call' = Called("DeleteLoadBalancerPool", rc, id, "")
            /\ ret' = Returned(out)
            /\ sent' = out.sent
            /\ nRequests' = nRequests + Len(out.sent)

CallUpdateLoadBalancerPool ==
    \E rc \in ResourceContainers, params \in Objects, resp \in Responses :
        LET out == Deref(rc, UpdateLoadBalancerPool(rc, params, resp))
        IN  /\ WithinBound(out)
            /\ call' = Called("UpdateLoadBalancerPool", rc, params.ID, "")
            /\ ret' = Returned(out)
            /\ sent' = out.sent
            /\ nRequests' = nRequests + Len(out.sent)

CallCreateLoadBalancerMonitor ==
    \E rc \in ResourceContainers, params \in Objects, resp \in Responses :
        LET out == Deref(rc, CreateLoadBalancerMonitor(rc, params, resp))
        IN  /\ WithinBound(out)
            /\ call' = Called("CreateLoadBalancerMonitor", rc, params.ID, "")
            /\ ret' = Returned(out)
            /\ sent' = out.sent
            /\ nRequests' = nRequests + Len(out.sent)

CallListLoadBalancerMonitors ==
    \E rc \in ResourceContainers, params \in PaginationOptions,
       resp \in Responses :
        LET out == Deref(rc, ListLoadBalancerMonitors(rc, params, resp))
        IN  /\ WithinBound(out)
            /\ call' = Called("ListLoadBalancerMonitors", rc, "", params)
            /\ ret' = Returned(out)
            /\ sent' = out.sent
            /\ nRequests' = nRequests + Len(out.sent)

CallGetLoadBalancerMonitor ==
    \E rc \in ResourceContainers, id \in IDs, resp \in Responses :
        LET out == Deref(rc, GetLoadBalancerMonitor(rc, id, resp))
        IN  /\ WithinBound(out)
            /\ call' = Called("GetLoadBalancerMonitor", rc, id, "")
            /\ ret' = Returned(out)
            /\ sent' = out.sent
            /\ nRequests' = nRequests + Len(out.sent)

CallDeleteLoadBalancerMonitor ==
    \E rc \in ResourceContainers, id \in IDs, resp \in Responses :
        LET out == Deref(rc, DeleteLoadBalancerMonitor(rc, id, resp))
        IN  /\ WithinBound(out)
            /\ call' = Called("DeleteLoadBalancerMonitor", rc, id, "")
            /\ ret' = Returned(out)
            /\ sent' = out.sent
            /\ nRequests' = nRequests + Len(out.sent)

CallUpdateLoadBalancerMonitor ==
    \E rc \in ResourceContainers, params \in Objects, resp \in Responses :
        LET out == Deref(rc, UpdateLoadBalancerMonitor(rc, params, resp))
        IN  /\ WithinBound(out)
            /\ call' = Called("UpdateLoadBalancerMonitor", rc, params.ID, "")
            /\ ret' = Returned(out)
            /\ sent' = out.sent
            /\ nRequests' = nRequests + Len(out.sent)

CallCreateLoadBalancer ==
    \E rc \in ResourceContainers, params \in Objects, resp \in Responses :
        LET out == Deref(rc, CreateLoadBalancer(rc, params, resp))
        IN  /\ WithinBound(out)
            /\ call' = Called("CreateLoadBalancer", rc, params.ID, "")
            /\ ret' = Returned(out)
            /\ sent' = out.sent
            /\ nRequests' = nRequests + Len(out.sent)

CallListLoadBalancers ==
    \E rc \in ResourceContainers, params \in PaginationOptions,
       resp \in Responses :
        LET out == Deref(rc, ListLoadBalancers(rc, params, resp))
        IN  /\ WithinBound(out)
            /\ call' = Called("ListLoadBalancers", rc, "", params)
            /\ ret' = Returned(out)
            /\ sent' = out.sent
            /\ nRequests' = nRequests + Len(out.sent)

CallGetLoadBalancer ==
    \E rc \in ResourceContainers, id \in IDs, resp \in Responses :
        LET out == Deref(rc, GetLoadBalancer(rc, id, resp))
        IN  /\ WithinBound(out)
            /\ call' = Called("GetLoadBalancer", rc, id, "")
            /\ ret' = Returned(out)
            /\ sent' = out.sent
            /\ nRequests' = nRequests + Len(out.sent)

CallDeleteLoadBalancer ==
    \E rc \in ResourceContainers, id \in IDs, resp \in Responses :
        LET out == Deref(rc, DeleteLoadBalancer(rc, id, resp))
        IN  /\ WithinBound(out)
            /\ call' = Called("DeleteLoadBalancer", rc, id, "")
            /\ ret' = Returned(out)
            /\ sent' = out.sent
            /\ nRequests' = nRequests + Len(out.sent)

CallUpdateLoadBalancer ==
    \E rc \in ResourceContainers, params \in Objects, resp \in Responses :
        LET out == Deref(rc, UpdateLoadBalancer(rc, params, resp))
        IN  /\ WithinBound(out)
            /\ call' = Called("UpdateLoadBalancer", rc, params.ID, "")
            /\ ret' = Returned(out)
            /\ sent' = out.sent
            /\ nRequests' = nRequests + Len(out.sent)

CallGetLoadBalancerPoolHealth ==
    \E rc \in ResourceContainers, id \in IDs, resp \in Responses :
        LET out == Deref(rc, GetLoadBalancerPoolHealth(rc, id, resp))
        IN  /\ WithinBound(out)
            /\ call' = Called("GetLoadBalancerPoolHealth", rc, id, "")
            /\ ret' = Returned(out)
            /\ sent' = out.sent
            /\ nRequests' = nRequests + Len(out.sent)

Next ==
    \/ CallCreateLoadBalancerPool
    \/ CallListLoadBalancerPools
    \/ CallGetLoadBalancerPool
    \/ CallDeleteLoadBalancerPool
    \/ CallUpdateLoadBalancerPool
    \/ CallCreateLoadBalancerMonitor
    \/ CallListLoadBalancerMonitors
    \/ CallGetLoadBalancerMonitor
    \/ CallDeleteLoadBalancerMonitor
    \/ CallUpdateLoadBalancerMonitor
    \/ CallCreateLoadBalancer
    \/ CallListLoadBalancers
    \/ CallGetLoadBalancer
    \/ CallDeleteLoadBalancer
    \/ CallUpdateLoadBalancer
    \/ CallGetLoadBalancerPoolHealth

Spec == Init /\ [][Next]_vars

--------------------------------------------------------------------------
(* Shape of the state *)

Errors ==
    {NilError, ErrMissingPoolID, ErrMissingMonitorID, ErrMissingLoadBalancerID,
     RequestError, UnmarshalError, NilDereference}
    \cup {InvalidResourceContainerAccess(l) : l \in Levels}

TypeOK ==
    /\ call.op \in Operations \cup {""}
    /\ call.rc \in ResourceContainers
    /\ call.id \in IDs
    /\ call.page \in PaginationOptions \cup {""}
    /\ ret.err \in Errors
    /\ ret.result.val \in {"zero", "empty", "nil", "decoded", "none"}
    /\ Len(sent) \in {0, 1}
    /\ nRequests \in 0..MaxRequests

--------------------------------------------------------------------------
(* The operations by what they check *)

PoolOps ==
    {"CreateLoadBalancerPool", "ListLoadBalancerPools", "GetLoadBalancerPool",
     "DeleteLoadBalancerPool", "UpdateLoadBalancerPool",
     "GetLoadBalancerPoolHealth"}

MonitorOps ==
    {"CreateLoadBalancerMonitor", "ListLoadBalancerMonitors",
     "GetLoadBalancerMonitor", "DeleteLoadBalancerMonitor",
     "UpdateLoadBalancerMonitor"}

LoadBalancerOps ==
    {"CreateLoadBalancer", "ListLoadBalancers", "GetLoadBalancer",
     "DeleteLoadBalancer", "UpdateLoadBalancer"}

\* The operations that take a resource ID and refuse an empty one.
IDOps ==
    {"GetLoadBalancerPool", "DeleteLoadBalancerPool", "UpdateLoadBalancerPool",
     "GetLoadBalancerPoolHealth",
     "GetLoadBalancerMonitor", "DeleteLoadBalancerMonitor",
     "UpdateLoadBalancerMonitor",
     "GetLoadBalancer", "DeleteLoadBalancer", "UpdateLoadBalancer"}

\* The sentinel error of an operation's resource.
MissingIDError(op) ==
    IF op \in PoolOps THEN ErrMissingPoolID
    ELSE IF op \in MonitorOps THEN ErrMissingMonitorID
    ELSE ErrMissingLoadBalancerID

--------------------------------------------------------------------------
(* Properties of the last call *)

\* A call was made, with a resource container (not a nil pointer).
CallMade == call.op \in Operations /\ ~call.rc.isNil

\* The level of the call's resource container is one its operation refuses.
LevelRejected ==
    \/ call.op \in PoolOps \cup MonitorOps /\ call.rc.Level = ZoneRouteLevel
    \/ call.op \in LoadBalancerOps /\ call.rc.Level # ZoneRouteLevel

EmptyResult == ret.result.val \in {"zero", "empty", "none"}

InvalidAccessReturned ==
    /\ ret.err.kind = "errInvalidResourceContainerAccess"
    /\ EmptyResult
    /\ sent = <<>>

\* Exactly one request, to the path of the container's level.
OneRequestToLevelPath ==
    /\ Len(sent) = 1
    /\ LET path == sent[1].path
       IN  IF call.op \in LoadBalancerOps
           THEN SubSeq(path, 1, 3)
                    = <<"zones", call.rc.Identifier, "load_balancers">>
           ELSE IF call.rc.Level = UserRouteLevel
           THEN SubSeq(path, 1, 2) = <<"user", "load_balancers">>
           ELSE SubSeq(path, 1, 3)
                    = <<"accounts", call.rc.Identifier, "load_balancers">>

\* C14 (as amended): a pool, monitor or pool-health operation called with a
\* zone-level resource container, and a load balancer operation called with
\* a container of any other level than zone, returns an
\* invalid-resource-container-access error with an empty result and issues
\* no request; at every other level, an operation that is given the resource
\* ID it requires (Create and List require none) issues exactly one request,
\* to /user/... at user level and /accounts/{identifier}/... otherwise
\* (pools, monitors), or to /zones/{identifier}/load_balancers... (load
\* balancers).
C14_LevelDecidesAccessAndPath ==
    CallMade =>
        /\ LevelRejected => InvalidAccessReturned
        /\ (~LevelRejected /\ (call.op \in IDOps => call.id # ""))
               => OneRequestToLevelPath

\* C14 (as stated): the same, with exactly one request at every level that
\* is not refused, whatever the resource ID.
C14_AsStated ==
    CallMade =>
        /\ LevelRejected => InvalidAccessReturned
        /\ ~LevelRejected => OneRequestToLevelPath

\* C14, its case: a pool was created through a user-level resource
\* container, and the one request went to /user/load_balancers/pools.
C14_Witness ==
    /\ call.op = "CreateLoadBalancerPool"
    /\ ~call.rc.isNil
    /\ call.rc.Level = UserRouteLevel
    /\ Len(sent) = 1
    /\ sent[1].path = <<"user", "load_balancers", "pools">>

\* C15: a Get, Delete or Update operation (or GetLoadBalancerPoolHealth)
\* called with an empty resource ID at a level its operation accepts returns
\* the sentinel error of its resource (ErrMissingPoolID, ErrMissingMonitorID
\* or ErrMissingLoadBalancerID) with an empty result and issues no request;
\* at a refused level the same call returns the level error instead.
C15_MissingIDAfterLevelCheck ==
    (CallMade /\ call.op \in IDOps /\ call.id = "") =>
        /\ ~LevelRejected =>
               /\ ret.err = MissingIDError(call.op)
               /\ EmptyResult
               /\ sent = <<>>
        /\ LevelRejected => InvalidAccessReturned

\* C15, its case: an update of a monitor with no ID, at user level, returned
\* ErrMissingMonitorID and sent nothing.
C15_Witness ==
    /\ call.op = "UpdateLoadBalancerMonitor"
    /\ ~call.rc.isNil
    /\ call.rc.Level = UserRouteLevel
    /\ call.id = ""
    /\ ret.err = ErrMissingMonitorID
    /\ sent = <<>>

==========================================================================
